---- MODULE Spec2Model ----
(***************************************************************************)
(* Model of led_color.py: sRGB colour -> CIE XYZ -> xyY -> RGB mixing      *)
(* ratio of three LED primaries -> luminous intensities.                   *)
(*                                                                         *)
(* Numbers.  The program computes with IEEE doubles.  The model computes   *)
(* with exact rationals (sign, numerator, denominator; numerator and       *)
(* denominator are base-10^4 limb sequences because TLC's integers are 32  *)
(* bits wide), plus the two outcomes of a division that are not numbers:   *)
(*   - NaN, produced by numpy's 0/0 in xyz_to_xyy and propagated by every  *)
(*     later operation, with every comparison on it false;                 *)
(*   - ZeroDivisionError, raised by Python's float division by zero in     *)
(*     xyy_to_rgb_mixing_ratio and choose_luminous_intensities, which      *)
(*     aborts the call.                                                    *)
(* Rounding of the doubles is not modelled, except in pow(u, 2.4), whose    *)
(* value is irrational: it is cut to PowDigits decimal digits.             *)
(***************************************************************************)
EXTENDS Integers, Sequences, FiniteSets, TLC

(***************************************************************************)
(* Natural numbers of any size: little-endian sequences of limbs.          *)
(***************************************************************************)
BASE == 10^4

RECURSIVE NatTrim(_)
NatTrim(a) ==
    IF a = <<>> THEN a
    ELSE IF a[Len(a)] = 0 THEN NatTrim(SubSeq(a, 1, Len(a) - 1))
    ELSE a

RECURSIVE NatFromInt(_)
NatFromInt(n) ==
    IF n = 0 THEN <<>> ELSE <<n % BASE>> \o NatFromInt(n \div BASE)

LimbAt(a, i) == IF i >= 1 /\ i <= Len(a) THEN a[i] ELSE 0

RECURSIVE NatCmpFrom(_, _, _)
NatCmpFrom(a, b, i) ==
    IF i = 0 THEN 0
    ELSE IF a[i] > b[i] THEN 1
    ELSE IF a[i] < b[i] THEN -1
    ELSE NatCmpFrom(a, b, i - 1)

\* -1, 0, 1 as a < b, a = b, a > b
NatCmp(a, b) ==
    IF Len(a) > Len(b) THEN 1
    ELSE IF Len(a) < Len(b) THEN -1
    ELSE NatCmpFrom(a, b, Len(a))

RECURSIVE NatAddFrom(_, _, _, _, _)
NatAddFrom(a, b, i, carry, acc) ==
    IF i > Len(a) /\ i > Len(b)
    THEN IF carry = 0 THEN acc ELSE Append(acc, carry)
    ELSE LET s == LimbAt(a, i) + LimbAt(b, i) + carry
         IN  NatAddFrom(a, b, i + 1, s \div BASE, Append(acc, s % BASE))

NatAdd(a, b) == NatAddFrom(a, b, 1, 0, <<>>)

\* a - q * b * BASE^k for 0 <= q < BASE, when that is not negative
RECURSIVE NatSubMulFrom(_, _, _, _, _, _, _)
NatSubMulFrom(a, b, q, k, i, borrow, acc) ==
    IF i > Len(a) THEN NatTrim(acc)
    ELSE LET t == a[i] + BASE * (BASE + 1) - q * LimbAt(b, i - k) - borrow
         IN  NatSubMulFrom(a, b, q, k, i + 1, (BASE + 1) - (t \div BASE),
                           Append(acc, t % BASE))

NatSubMul(a, b, q, k) == NatSubMulFrom(a, b, q, k, 1, 0, <<>>)

NatSub(a, b) == NatSubMul(a, b, 1, 0)

RECURSIVE NatMulSmallFrom(_, _, _, _, _)
NatMulSmallFrom(a, q, i, carry, acc) ==
    IF i > Len(a)
    THEN IF carry = 0 THEN acc ELSE Append(acc, carry)
    ELSE LET t == a[i] * q + carry
         IN  NatMulSmallFrom(a, q, i + 1, t \div BASE, Append(acc, t % BASE))

Zeros(k) == [j \in 1..k |-> 0]

\* a * q * BASE^k for 0 <= q < BASE
NatMulSmall(a, q, k) ==
    IF q = 0 \/ a = <<>> THEN <<>>
    ELSE Zeros(k) \o NatMulSmallFrom(a, q, 1, 0, <<>>)

RECURSIVE NatMulFrom(_, _, _, _)
NatMulFrom(a, b, i, acc) ==
    IF i > Len(b) THEN acc
    ELSE NatMulFrom(a, b, i + 1, NatAdd(acc, NatMulSmall(a, b[i], i - 1)))

NatMul(a, b) ==
    IF Len(a) >= Len(b) THEN NatMulFrom(a, b, 1, <<>>)
    ELSE NatMulFrom(b, a, 1, <<>>)

\* The two top limbs of a as one integer (a has at least two limbs)
Top2(a) == a[Len(a)] * BASE + a[Len(a) - 1]

\* A limb q >= 1 and a shift k with q * b * BASE^k <= a, for a >= b > 0
\* (b of at least two limbs): the next part of the quotient a \div b.
QuotPart(a, b) ==
    LET la == Len(a)
        lb == Len(b)
    IN  IF Top2(a) > Top2(b)
        THEN <<Top2(a) \div (Top2(b) + 1), la - lb>>
        ELSE IF la = lb THEN <<1, 0>>
        ELSE <<Top2(a) \div (b[lb] + 1), la - lb - 1>>

RECURSIVE NatDivModLong(_, _, _)
NatDivModLong(a, b, quo) ==
    IF NatCmp(a, b) < 0 THEN <<quo, a>>
    ELSE LET qk == QuotPart(a, b)
         IN  NatDivModLong(NatSubMul(a, b, qk[1], qk[2]), b,
                           NatAdd(quo, Zeros(qk[2]) \o <<qk[1]>>))

\* a \div d and a % d for one limb d, from the top limb down
RECURSIVE NatDivModSmallFrom(_, _, _, _, _)
NatDivModSmallFrom(a, d, i, rem, acc) ==
    IF i = 0 THEN <<NatTrim(acc), NatFromInt(rem)>>
    ELSE LET t == rem * BASE + a[i]
         IN  NatDivModSmallFrom(a, d, i - 1, t % d, <<t \div d>> \o acc)

\* <<a \div b, a % b>> for b > 0
NatDivMod(a, b) ==
    IF Len(b) = 1 THEN NatDivModSmallFrom(a, b[1], Len(a), 0, <<>>)
    ELSE NatDivModLong(a, b, <<>>)

RECURSIVE NatGcd(_, _)
NatGcd(a, b) == IF b = <<>> THEN a ELSE NatGcd(b, NatDivMod(a, b)[2])

(***************************************************************************)
(* Numbers of the program.  A value is a record: k = "q" is the rational   *)
(* s * n / d (s in {-1, 0, 1}, n and d in lowest terms, d > 0), k = "nan"  *)
(* is NaN, k = "zde" is a ZeroDivisionError raised while computing it.     *)
(***************************************************************************)
One == <<1>>

Rat(s, n, d) == [k |-> "q", s |-> s, n |-> n, d |-> d]

Zero == Rat(0, <<>>, One)

NaN == [k |-> "nan", s |-> 0, n |-> <<>>, d |-> One]

ZDE == [k |-> "zde", s |-> 0, n |-> <<>>, d |-> One]

\* s * n / d with the common divisor g of n and d cancelled
RatCancel(s, n, d, g) ==
    IF g = One THEN Rat(s, n, d)
    ELSE Rat(s, NatDivMod(n, g)[1], NatDivMod(d, g)[1])

\* s * n / d in lowest terms
RatNorm(s, n, d) ==
    IF n = <<>> \/ s = 0 THEN Zero
    ELSE IF d = One THEN Rat(s, n, d)
    ELSE RatCancel(s, n, d, NatGcd(n, d))

\* The integer i, and the decimal i / 10^e, for a 32-bit i
RatInt(i) == IF i = 0 THEN Zero
             ELSE IF i < 0 THEN Rat(-1, NatFromInt(-i), One)
             ELSE Rat(1, NatFromInt(i), One)

Dec(i, e) == RatNorm(IF i < 0 THEN -1 ELSE 1,
                     NatFromInt(IF i < 0 THEN -i ELSE i),
                     NatFromInt(10^e))

RatNeg(a) == Rat(-a.s, a.n, a.d)

\* <<sign, magnitude>> of s1 * m1 + s2 * m2
SignedSum(s1, m1, s2, m2) ==
    IF s1 = 0 THEN <<s2, m2>>
    ELSE IF s2 = 0 THEN <<s1, m1>>
    ELSE IF s1 = s2 THEN <<s1, NatAdd(m1, m2)>>
    ELSE IF NatCmp(m1, m2) >= 0 THEN <<s1, NatSub(m1, m2)>>
    ELSE <<s2, NatSub(m2, m1)>>

RatOfPair(sm, d) == RatNorm(sm[1], sm[2], d)

RatAdd(a, b) ==
    RatOfPair(SignedSum(a.s, NatMul(a.n, b.d), b.s, NatMul(b.n, a.d)),
              NatMul(a.d, b.d))

RatSub(a, b) == RatAdd(a, RatNeg(b))

RatMul(a, b) == RatNorm(a.s * b.s, NatMul(a.n, b.n), NatMul(a.d, b.d))

\* a / b for b # 0
RatDiv(a, b) == RatNorm(a.s * b.s, NatMul(a.n, b.d), NatMul(a.d, b.n))

\* the sign of a - b
RatCmp(a, b) ==
    IF a.s # b.s THEN (IF a.s > b.s THEN 1 ELSE -1)
    ELSE IF a.s = 0 THEN 0
    ELSE a.s * NatCmp(NatMul(a.n, b.d), NatMul(b.n, a.d))

IsNum(a) == a.k = "q"

IsZero(a) == a.k = "q" /\ a.s = 0

\* Python's float +, -, *: NaN if an operand is NaN.  An operand that raised
\* never reaches the operation: the exception is what the expression yields.
FloatOp(a, b, r) ==
    IF a.k = "zde" \/ b.k = "zde" THEN ZDE
    ELSE IF a.k = "nan" \/ b.k = "nan" THEN NaN
    ELSE r

FAdd(a, b) == FloatOp(a, b, RatAdd(a, b))

FSub(a, b) == FloatOp(a, b, RatSub(a, b))

FMul(a, b) == FloatOp(a, b, RatMul(a, b))

\* numpy's array / scalar: 0/0 is nan (a RuntimeWarning, no exception).
\* x/0 with x # 0 (inf) does not arise: it is applied to X, Y and X+Y+Z,
\* which are sums of non-negative terms, so a zero sum has zero parts.
NpDiv(a, b) ==
    IF a.k = "nan" \/ b.k = "nan" THEN NaN
    ELSE IF IsZero(b) THEN NaN
    ELSE RatDiv(a, b)

\* The variant of Python's / that yields NaN for a zero divisor, as numpy's
FDivQuiet(a, b) ==
    IF a.k = "zde" \/ b.k = "zde" THEN ZDE
    ELSE IF a.k = "nan" \/ b.k = "nan" \/ IsZero(b) THEN NaN
    ELSE RatDiv(a, b)

\* Python's float /: ZeroDivisionError when the divisor is zero
FDiv(a, b) ==
    IF a.k = "zde" \/ b.k = "zde" THEN ZDE
    ELSE IF IsZero(b) THEN ZDE
    ELSE IF a.k = "nan" \/ b.k = "nan" THEN NaN
    ELSE RatDiv(a, b)

\* Python's <, <=, >=: False when an operand is NaN
FLt(a, b) == IsNum(a) /\ IsNum(b) /\ RatCmp(a, b) < 0

FLe(a, b) == IsNum(a) /\ IsNum(b) /\ RatCmp(a, b) <= 0

FEq(a, b) == IsNum(a) /\ IsNum(b) /\ RatCmp(a, b) = 0

(***************************************************************************)
(* pow(u, e) for 0 < u <= 1 and a rational exponent e = p / q: the q-th    *)
(* root of u^p, which is irrational in general.  The model keeps           *)
(* PowDigits decimal digits of it (rounded down); it is exact when the     *)
(* root is a decimal of that length, as pow(1.0, 2.4) = 1.0 is.            *)
(***************************************************************************)
PowDigits == 8

RECURSIVE NatPow(_, _)
NatPow(a, p) == IF p = 0 THEN One ELSE NatMul(a, NatPow(a, p - 1))

\* the largest r in lo..hi with r^q <= n (lo^q <= n is given)
RECURSIVE NatRoot(_, _, _, _)
NatRoot(n, q, lo, hi) ==
    IF lo = hi THEN lo
    ELSE LET mid == lo + (hi - lo + 1) \div 2
         IN  IF NatCmp(NatPow(NatFromInt(mid), q), n) <= 0
             THEN NatRoot(n, q, mid, hi)
             ELSE NatRoot(n, q, lo, mid - 1)

Pow(u, e) ==
    LET p == e.n[1]
        q == e.d[1]
        scale == NatFromInt(10^PowDigits)
        radicand == NatDivMod(NatMul(NatPow(u.n, p), NatPow(scale, q)),
                              NatPow(u.d, p))[1]
    IN  RatNorm(1, NatFromInt(NatRoot(radicand, q, 0, 10^PowDigits)), scale)

(***************************************************************************)
(* The program's constants.                                                *)
(***************************************************************************)
\* The primaries of the LEDs, and the primaries the module's docstring
\* tells to put in their place to test against the reference values.
PRIMARY_RED_X == Dec(700606061, 9)
PRIMARY_RED_Y == Dec(299300699, 9)
PRIMARY_GREEN_X == Dec(154722061, 9)
PRIMARY_GREEN_Y == Dec(805863545, 9)
PRIMARY_BLUE_X == Dec(109594324, 9)
PRIMARY_BLUE_Y == Dec(86842510, 9)

LedPrimaries ==
    [RED_X |-> PRIMARY_RED_X, RED_Y |-> PRIMARY_RED_Y,
     GREEN_X |-> PRIMARY_GREEN_X, GREEN_Y |-> PRIMARY_GREEN_Y,
     BLUE_X |-> PRIMARY_BLUE_X, BLUE_Y |-> PRIMARY_BLUE_Y]

TestPrimaries ==
    [RED_X |-> Dec(67, 2), RED_Y |-> Dec(33, 2),
     GREEN_X |-> Dec(21, 2), GREEN_Y |-> Dec(71, 2),
     BLUE_X |-> Dec(14, 2), BLUE_Y |-> Dec(8, 2)]

Primaries(cfg) == IF cfg = "test" THEN TestPrimaries ELSE LedPrimaries

RED_LUMINOUS_INTENSITY == Dec(105, 3)
GREEN_LUMINOUS_INTENSITY == Dec(330, 3)
BLUE_LUMINOUS_INTENSITY == Dec(200, 3)

MAX_8_BIT == 255

COMPAND_V_MIN == Dec(4045, 5)
COMPAND_A == Dec(1292, 2)
COMPAND_B == Dec(55, 3)
COMPAND_C == Dec(1055, 3)
COMPAND_POW == Dec(24, 1)
COMPAND_MAGIC_NUM == RatInt(100)

RGB_TO_XYZ ==
    << <<Dec(4124564, 7), Dec(3575761, 7), Dec(1804375, 7)>>,
       <<Dec(2126729, 7), Dec(7151522, 7), Dec(721750, 7)>>,
       <<Dec(193339, 7), Dec(1191920, 7), Dec(9503041, 7)>> >>

(***************************************************************************)
(* The program's functions.                                                *)
(***************************************************************************)
inverse_companding(v) ==
    IF FLe(v, COMPAND_V_MIN)
    THEN FDiv(v, COMPAND_A)
    ELSE Pow(FDiv(FAdd(v, COMPAND_B), COMPAND_C), COMPAND_POW)

\* One channel: normalised, decoded, scaled to 0..100
Channel(c) ==
    FMul(inverse_companding(FDiv(RatInt(c), RatInt(MAX_8_BIT))),
         COMPAND_MAGIC_NUM)

\* numpy.dot of one row of the matrix and the column (r, g, b)
Dot(row, col) ==
    FAdd(FAdd(FMul(row[1], col[1]), FMul(row[2], col[2])),
         FMul(row[3], col[3]))

\* The loop of lines 97-98 over the channels, from channel i on
RECURSIVE Companded(_, _)
Companded(rgb_arr, i) ==
    IF i > Len(rgb_arr) THEN <<>>
    ELSE <<Channel(rgb_arr[i])>> \o Companded(rgb_arr, i + 1)

\* numpy.dot of the matrix and a column, from row i on
RECURSIVE MatVec(_, _, _)
MatVec(m, col, i) ==
    IF i > Len(m) THEN <<>>
    ELSE <<Dot(m[i], col)>> \o MatVec(m, col, i + 1)

rgb_to_xyz(red, green, blue) ==
    MatVec(RGB_TO_XYZ, Companded(<<red, green, blue>>, 1), 1)

\* numpy.sum and Python's sum() of three numbers
sum(t) == FAdd(FAdd(t[1], t[2]), t[3])

\* The variant that leaves Z out of the sum
xyz_to_xyy_without_z(xyz) ==
    <<NpDiv(xyz[1], FAdd(xyz[1], xyz[2])),
      NpDiv(xyz[2], FAdd(xyz[1], xyz[2])), xyz[2]>>

xyz_to_xyy(xyz) ==
    LET x == NpDiv(xyz[1], sum(xyz))
        y == NpDiv(xyz[2], sum(xyz))
        luminance == xyz[2]
    IN  <<x, y, luminance>>

\* The variant without the sign of the formula
calc_ratio_unsigned(y1, y2, y3) ==
    FDiv(FMul(FDiv(y2, y1), FSub(y1, y3)), FSub(y2, y3))

calc_ratio_of_mixtures(y1, y2, y3) ==
    FDiv(FMul(FMul(RatInt(-1), FDiv(y2, y1)), FSub(y1, y3)), FSub(y2, y3))

\* Line 144, the article's formula that the source keeps as a comment
const_gd_article(P, cie_xyy, slope_gd) ==
    FSub(P.GREEN_Y, FMul(slope_gd, cie_xyy[1]))

\* Line 145: the intercept of the line through green and the target
const_gd(P, cie_xyy, slope_gd) == FSub(P.GREEN_Y, FMul(slope_gd, P.GREEN_X))

\* The three ratios; a component is ZDE when the call raised.
\* Each local below is the statement of the source that assigns the name of
\* its last parameter(s), applied to the locals assigned before it.
xyy_to_rgb_mixing_ratio(cie_xyy, P) ==
    LET Ratios(ratio_pg, red_fraction, blue_fraction) ==
            <<FDiv(red_fraction, blue_fraction),
              FDiv(ratio_pg, blue_fraction),
              FDiv(blue_fraction, blue_fraction)>>
        Fractions(ratio_br, ratio_pg) ==
            Ratios(ratio_pg,
                   FDiv(ratio_br, FAdd(ratio_br, RatInt(1))),
                   FDiv(RatInt(1), FAdd(ratio_br, RatInt(1))))
        Mixtures(purple_y) ==
            Fractions(calc_ratio_of_mixtures(P.BLUE_Y, P.RED_Y, purple_y),
                      calc_ratio_of_mixtures(purple_y, P.GREEN_Y, cie_xyy[2]))
        PurpleY(slope_rb, const_rb, purple_x) ==
            Mixtures(FAdd(FMul(slope_rb, purple_x), const_rb))
        PurpleX(slope_rb, const_rb, slope_gd, constgd) ==
            PurpleY(slope_rb, const_rb,
                    FDiv(FSub(const_rb, constgd), FSub(slope_gd, slope_rb)))
        ConstGD(slope_rb, const_rb, slope_gd) ==
            PurpleX(slope_rb, const_rb, slope_gd,
                    const_gd(P, cie_xyy, slope_gd))
        SlopeGD(slope_rb, const_rb) ==
            ConstGD(slope_rb, const_rb,
                    FDiv(FSub(P.GREEN_Y, cie_xyy[2]),
                         FSub(P.GREEN_X, cie_xyy[1])))
        ConstRB(slope_rb) ==
            SlopeGD(slope_rb, FSub(P.BLUE_Y, FMul(slope_rb, P.BLUE_X)))
    IN  ConstRB(FDiv(FSub(P.RED_Y, P.BLUE_Y), FSub(P.RED_X, P.BLUE_X)))

\* Whether a call that yields the triple t raised
Raised(t) == \E i \in 1..3 : t[i].k = "zde"

\* The relative intensities in percent that print_result prints
print_result(color_mixing_ratio, percentages, intensities) ==
    <<FMul(FDiv(intensities[1], RED_LUMINOUS_INTENSITY), RatInt(100)),
      FMul(FDiv(intensities[2], GREEN_LUMINOUS_INTENSITY), RatInt(100)),
      FMul(FDiv(intensities[3], BLUE_LUMINOUS_INTENSITY), RatInt(100))>>

\* Lines 209-211
rgb_percentages(color_mixing_ratio) ==
    <<FDiv(color_mixing_ratio[1], sum(color_mixing_ratio)),
      FDiv(color_mixing_ratio[2], sum(color_mixing_ratio)),
      FDiv(color_mixing_ratio[3], sum(color_mixing_ratio))>>

\* The variant that limits green and blue to their rated intensities
rgb_intensities_clamped(percentages) ==
    LET Least(x, max) == IF FLt(max, x) THEN max ELSE x
    IN  <<RED_LUMINOUS_INTENSITY,
          Least(FMul(FDiv(RED_LUMINOUS_INTENSITY, percentages[1]),
                     percentages[2]), GREEN_LUMINOUS_INTENSITY),
          Least(FMul(FDiv(RED_LUMINOUS_INTENSITY, percentages[1]),
                     percentages[3]), BLUE_LUMINOUS_INTENSITY)>>

\* Lines 214-216 and 219: red bounds the candela
rgb_intensities(percentages) ==
    <<RED_LUMINOUS_INTENSITY,
      FMul(FDiv(RED_LUMINOUS_INTENSITY, percentages[1]), percentages[2]),
      FMul(FDiv(RED_LUMINOUS_INTENSITY, percentages[1]), percentages[3])>>

\* <<rgb_percentages, rgb_intensities, what print_result prints>>
choose_luminous_intensities(color_mixing_ratio) ==
    LET Result(percentages, intensities) ==
            <<percentages, intensities,
              print_result(color_mixing_ratio, percentages, intensities)>>
        Intensities(percentages) ==
            Result(percentages, rgb_intensities(percentages))
    IN  Intensities(rgb_percentages(color_mixing_ratio))

(***************************************************************************)
(* The state of a run of main(): the position in it (pc) and its locals.   *)
(* pc ends at "done", or at the exception that ended the run:              *)
(* "ImaginaryColor" (line 244), "ZeroDivisionError" (a float division),    *)
(* "ValueError" (print_result formatting a NaN with %d).                   *)
(* cfg names the primaries in place: "led", or "test" for those of the     *)
(* module's docstring.  toward, at and prev_ratio belong to the runs that  *)
(* solve for successive targets on the way from the centroid of the        *)
(* primaries' triangle to one primary.                                     *)
(***************************************************************************)
VARIABLES pc, cfg, rgb, cie_xyz, cie_xyy, color_mixing_ratio, luminous,
          toward, at, prev_ratio

vars == <<pc, cfg, rgb, cie_xyz, cie_xyy, color_mixing_ratio, luminous,
          toward, at, prev_ratio>>

None == <<>>

\* Bounds of the inputs
LowChan == 10
MidChan == 128
GridN == 6
WalkSteps == 6

ChannelValues == {0, LowChan, MidChan, MAX_8_BIT}

\* main, line 236
RgbToXyz ==
    /\ pc = "main"
    /\ cie_xyz' = rgb_to_xyz(rgb[1], rgb[2], rgb[3])
    /\ pc' = "xyz"
    /\ UNCHANGED <<cfg, rgb, cie_xyy, color_mixing_ratio, luminous,
                   toward, at, prev_ratio>>

\* main, line 237
XyzToXyy ==
    /\ pc = "xyz"
    /\ cie_xyy' = xyz_to_xyy(cie_xyz)
    /\ pc' = "xyy"
    /\ UNCHANGED <<cfg, rgb, cie_xyz, color_mixing_ratio, luminous,
                   toward, at, prev_ratio>>

\* main, line 238: the call returns the ratio or raises ZeroDivisionError,
\* which nothing catches
XyyToRgbMixingRatio ==
    /\ pc = "xyy"
    /\ \E r \in {xyy_to_rgb_mixing_ratio(cie_xyy, Primaries(cfg))} :
           IF Raised(r)
           THEN /\ pc' = "ZeroDivisionError"
                /\ UNCHANGED color_mixing_ratio
           ELSE /\ pc' = "ratio"
                /\ color_mixing_ratio' = r
    /\ UNCHANGED <<cfg, rgb, cie_xyz, cie_xyy, luminous, toward, at,
                   prev_ratio>>

\* any(map(lambda x: x < 0, color_mixing_ratio))
AnyNegative(ratio) == \E i \in 1..3 : FLt(ratio[i], Zero)

\* main, lines 240-245
ImaginaryColor ==
    /\ pc = "ratio"
    /\ AnyNegative(color_mixing_ratio)
    /\ pc' = "ImaginaryColor"
    /\ UNCHANGED <<cfg, rgb, cie_xyz, cie_xyy, color_mixing_ratio, luminous,
                   toward, at, prev_ratio>>

\* Whether '%d' % x raises for an x of the triple t (x is NaN)
UnprintableInt(t) == \E i \in 1..3 : t[i].k = "nan"

\* main, line 247.  A division of lines 209-216 may raise before anything
\* is computed; print_result raises at line 183 or 193, after the
\* intensities were computed, when a number it formats with %d is NaN.
ChooseLuminousIntensities ==
    /\ pc = "ratio"
    /\ ~AnyNegative(color_mixing_ratio)
    /\ \E res \in {choose_luminous_intensities(color_mixing_ratio)} :
           IF Raised(res[1]) \/ Raised(res[2]) \/ Raised(res[3])
           THEN /\ pc' = "ZeroDivisionError"
                /\ UNCHANGED luminous
           ELSE /\ pc' = IF UnprintableInt(res[1]) \/ UnprintableInt(res[3])
                         THEN "ValueError" ELSE "done"
                /\ luminous' = res
    /\ UNCHANGED <<cfg, rgb, cie_xyz, cie_xyy, color_mixing_ratio,
                   toward, at, prev_ratio>>

\* A run of main() on a colour of 8 bits per channel
Init ==
    /\ pc = "main"
    /\ cfg = "led"
    /\ rgb \in ChannelValues \X ChannelValues \X ChannelValues
    /\ cie_xyz = None
    /\ cie_xyy = None
    /\ color_mixing_ratio = None
    /\ luminous = None
    /\ toward = "none"
    /\ at = 0
    /\ prev_ratio = None

Next ==
    \/ RgbToXyz
    \/ XyzToXyy
    \/ XyyToRgbMixingRatio
    \/ ImaginaryColor
    \/ ChooseLuminousIntensities

Spec == Init /\ [][Next]_vars

(***************************************************************************)
(* Runs of main() from line 238 on, on a given target xyY: the solver and  *)
(* what follows it, applied to a grid of chromaticities and to the points  *)
(* the solver's geometry singles out, under both sets of primaries.        *)
(***************************************************************************)
\* The D65 white point of the docstring's test note
D65 == <<Dec(3128, 4), Dec(3292, 4)>>

Vertex(P, name) ==
    CASE name = "red" -> <<P.RED_X, P.RED_Y>>
      [] name = "green" -> <<P.GREEN_X, P.GREEN_Y>>
      [] name = "blue" -> <<P.BLUE_X, P.BLUE_Y>>

GridCoord(a) == FDiv(RatInt(a), RatInt(GridN))

\* The chromaticities (a / GridN, b / GridN) with x + y <= 1
GridTargets ==
    {<<GridCoord(ab[1]), GridCoord(ab[2])>> :
        ab \in {cd \in (0..GridN) \X (0..GridN) : cd[1] + cd[2] <= GridN}}

\* The targets on the vertical line through the green primary
GreenAligned(P) == {<<P.GREEN_X, GridCoord(b)>> : b \in 0..GridN}

Targets(P) ==
    GridTargets \cup GreenAligned(P) \cup {D65}
        \cup {Vertex(P, name) : name \in {"red", "green", "blue"}}

SolverInit ==
    /\ pc = "xyy"
    /\ cfg \in {"led", "test"}
    /\ rgb = None
    /\ cie_xyz = None
    /\ cie_xyy \in {<<t[1], t[2], RatInt(1)>> : t \in Targets(Primaries(cfg))}
    /\ color_mixing_ratio = None
    /\ luminous = None
    /\ toward = "none"
    /\ at = 0
    /\ prev_ratio = None

SolverNext ==
    \/ XyyToRgbMixingRatio
    \/ ImaginaryColor
    \/ ChooseLuminousIntensities

SolverSpec == SolverInit /\ [][SolverNext]_vars

(***************************************************************************)
(* The solver applied to successive targets on the segment from the        *)
(* centroid of the primaries' triangle (at = 0) to the vertex of the       *)
(* primary named by toward (at = WalkSteps); prev_ratio is the ratio       *)
(* returned for the target before the current one.                         *)
(***************************************************************************)
Centroid(P) ==
    <<FDiv(sum(<<P.RED_X, P.GREEN_X, P.BLUE_X>>), RatInt(3)),
      FDiv(sum(<<P.RED_Y, P.GREEN_Y, P.BLUE_Y>>), RatInt(3))>>

\* centroid + (k / WalkSteps) * (vertex - centroid)
Along(c, v, k) == FAdd(c, FMul(FDiv(RatInt(k), RatInt(WalkSteps)), FSub(v, c)))

WalkPoint(c, v, k) == <<Along(c[1], v[1], k), Along(c[2], v[2], k)>>

MoveToward ==
    /\ pc = "ratio"
    /\ \E k \in (at + 1)..WalkSteps :
           /\ at' = k
           /\ \E t \in {WalkPoint(Centroid(Primaries(cfg)),
                                  Vertex(Primaries(cfg), toward), k)} :
                  cie_xyy' = <<t[1], t[2], cie_xyy[3]>>
    /\ prev_ratio' = color_mixing_ratio
    /\ pc' = "xyy"
    /\ UNCHANGED <<cfg, rgb, cie_xyz, color_mixing_ratio, luminous, toward>>

WalkInit ==
    /\ pc = "xyy"
    /\ cfg = "led"
    /\ rgb = None
    /\ cie_xyz = None
    /\ toward \in {"red", "green", "blue"}
    /\ at = 0
    /\ cie_xyy \in {<<t[1], t[2], RatInt(1)>> :
                        t \in {Centroid(Primaries(cfg))}}
    /\ color_mixing_ratio = None
    /\ luminous = None
    /\ prev_ratio = None

WalkNext ==
    \/ XyyToRgbMixingRatio
    \/ MoveToward

WalkSpec == WalkInit /\ [][WalkNext]_vars

(***************************************************************************)
(* Properties.                                                             *)
(***************************************************************************)
AllNonNegative(ratio) == \A i \in 1..3 : FLe(Zero, ratio[i])

\* |a - b| <= tol
Within(a, b, tol) == FLe(FSub(a, b), tol) /\ FLe(FSub(b, a), tol)

SamePoint(t, u) == FEq(t[1], u[1]) /\ FEq(t[2], u[2])

White == <<MAX_8_BIT, MAX_8_BIT, MAX_8_BIT>>

Black == <<0, 0, 0>>

\* C1: calibrated intensities are computed only from a ratio whose three
\* components are all >= 0 (a ratio with a negative component ends the run
\* in the imaginary-colour error instead).
C1_CalibrationOnlyFromNonNegative ==
    /\ luminous # None => AllNonNegative(color_mixing_ratio)
    /\ pc = "ImaginaryColor" => AnyNegative(color_mixing_ratio)

\* C3: whenever the solver returned a ratio, its blue component is 1.
C3_BlueIsOne ==
    color_mixing_ratio # None => FEq(color_mixing_ratio[3], RatInt(1))

\* C4: for the black colour (0, 0, 0) the run stops at xyz_to_xyy: no
\* chromaticity, no mixing ratio and no intensity is produced.
C4_BlackIsRejected ==
    rgb = Black =>
        cie_xyy = None /\ color_mixing_ratio = None /\ luminous = None

\* C9: white (255, 255, 255) decodes to 100 per channel and has a
\* chromaticity within 1e-3 of the D65 white point in x and in y.
C9_WhiteIsD65 ==
    (rgb = White /\ cie_xyy # None) =>
        /\ FEq(Channel(MAX_8_BIT), RatInt(100))
        /\ Within(cie_xyy[1], D65[1], Dec(1, 3))
        /\ Within(cie_xyy[2], D65[2], Dec(1, 3))

\* C9, reached: white has been converted to a chromaticity
C9_WhiteConverted == rgb = White /\ pc = "xyy" /\ IsNum(cie_xyy[1])

\* Twice the signed area of the triangle a, b, c
Orient(a, b, c) ==
    FSub(FMul(FSub(b[1], a[1]), FSub(c[2], a[2])),
         FMul(FSub(b[2], a[2]), FSub(c[1], a[1])))

MixedSigns(o) ==
    /\ \E i \in 1..3 : FLt(o[i], Zero)
    /\ \E i \in 1..3 : FLt(Zero, o[i])

\* t is neither inside nor on the triangle of the primaries P: it lies on
\* different sides of two of its edges
StrictlyOutside(P, t) ==
    MixedSigns(<<Orient(Vertex(P, "red"), Vertex(P, "green"), t),
                 Orient(Vertex(P, "green"), Vertex(P, "blue"), t),
                 Orient(Vertex(P, "blue"), Vertex(P, "red"), t)>>)

\* C2: when the solver returns a ratio for a target strictly outside the
\* triangle of the primaries, a component of the ratio is negative.
C2_OutsideHasNegative ==
    (color_mixing_ratio # None /\ StrictlyOutside(Primaries(cfg), cie_xyy))
        => AnyNegative(color_mixing_ratio)

\* C2, reached: a target strictly outside the triangle was solved and
\* rejected by main
C2_OutsideSolved ==
    /\ pc = "ImaginaryColor"
    /\ StrictlyOutside(Primaries(cfg), cie_xyy)

OnGreenLine == FEq(cie_xyy[1], Primaries(cfg).GREEN_X)

RelClose(v, unit, ref) ==
    Within(FDiv(v, unit), ref, FMul(Dec(1, 3), ref))

ReferenceCase == cfg = "test" /\ SamePoint(cie_xyy, D65)

\* C6: with the docstring's primaries and the D65 target, red / blue and
\* green / blue of the returned ratio are within 1e-3 (relative) of
\* 0.7348 / 0.265 and 1.53696 / 0.265.
C6_ReferenceRatio ==
    (ReferenceCase /\ pc # "xyy") =>
        /\ color_mixing_ratio # None
        /\ RelClose(color_mixing_ratio[1], color_mixing_ratio[3],
                    FDiv(Dec(7348, 4), Dec(265, 3)))
        /\ RelClose(color_mixing_ratio[2], color_mixing_ratio[3],
                    FDiv(Dec(153696, 5), Dec(265, 3)))

\* C6, reached: the reference case ran to the end
C6_ReferenceSolved == ReferenceCase /\ pc = "done"

AtVertex(name) == SamePoint(cie_xyy, Vertex(Primaries(cfg), name))

Component(name) ==
    CASE name = "red" -> 1 [] name = "green" -> 2 [] name = "blue" -> 3

Proportional(ratio, intensities) ==
    /\ FEq(intensities[1], RED_LUMINOUS_INTENSITY)
    /\ FEq(FMul(intensities[2], ratio[1]), FMul(intensities[1], ratio[2]))
    /\ FEq(FMul(intensities[3], ratio[1]), FMul(intensities[1], ratio[3]))

\* The ratio passed the check of main and choose_luminous_intensities ran
Handed ==
    /\ color_mixing_ratio # None
    /\ AllNonNegative(color_mixing_ratio)
    /\ pc # "ratio"

\* C8 as stated: every ratio with components >= 0 handed to
\* choose_luminous_intensities gets intensities in its proportion, red at
\* its rating.
C8_AlwaysProportional ==
    Handed => luminous # None /\ Proportional(color_mixing_ratio, luminous[2])

\* C8, amended: a ratio with components >= 0 and red > 0 gets intensities
\* in its proportion, red at its rating, green and blue whatever their
\* ratings; a ratio with red = 0 raises ZeroDivisionError and gets none.
C8_ProportionalWhenRedPositive ==
    Handed =>
        IF FLt(Zero, color_mixing_ratio[1])
        THEN /\ pc = "done"
             /\ Proportional(color_mixing_ratio, luminous[2])
        ELSE pc = "ZeroDivisionError" /\ luminous = None

\* C8, reached: a run whose green intensity is above green's rating (above
\* 100 percent of it)
C8_GreenOverRating ==
    /\ pc = "done"
    /\ FLt(GREEN_LUMINOUS_INTENSITY, luminous[2][2])
    /\ FLt(RatInt(100), luminous[3][2])

\* C10: on the way from the centroid to a primary, that primary's component
\* relative to each other component of the returned ratio does not decrease
\* from one target to a later one (compared by cross-multiplication).
C10_TowardPrimaryMonotone ==
    (pc = "ratio" /\ prev_ratio # None) =>
        \A other \in {1, 2, 3} \ {Component(toward)} :
            FLe(FMul(prev_ratio[Component(toward)],
                     color_mixing_ratio[other]),
                FMul(color_mixing_ratio[Component(toward)],
                     prev_ratio[other]))

\* C10, reached: on the way to red, a ratio whose red over blue is above
\* that of an earlier target
C10_MovedCloser ==
    /\ pc = "ratio"
    /\ prev_ratio # None
    /\ toward = "red"
    /\ FLt(FMul(prev_ratio[1], color_mixing_ratio[3]),
           FMul(color_mixing_ratio[1], prev_ratio[3]))

====
